---- MODULE Spec2Model ----
(***************************************************************************)
(* Channel lifecycle engine of stream-proxy: the shared state store        *)
(* (state.rs), the per-channel upstream task (upstream.rs), the client     *)
(* session handler with its drop guard (stream.rs) and the control         *)
(* handlers (control.rs).  Every handler runs on a multi-threaded runtime, *)
(* so each access to a shared map, atomic or watch channel is one step.    *)
(***************************************************************************)
EXTENDS Integers, Sequences, FiniteSets, TLC

\* ---- bounds of the model ----
MaxClients == 2      \* client connections in flight at once
MaxActive == 2       \* ActiveChannel objects alive at once
MaxControl == 1      \* control requests in flight at once
MaxConn == 1         \* largest max_connections a control request carries
MaxArrivals == 2     \* client requests over a run
MaxRequests == 1     \* control requests over a run
MaxFailures == 2     \* upstream failures over a run
FairArrivals == 2    \* client requests over a run under fairness
FairFailures == 1    \* upstream failures over a run under fairness
SyncArrivals == 2    \* client requests over a run with a sync
SyncRequests == 1    \* sync requests over a run
SyncFailures == 1    \* upstream failures over a run with a sync
CapArrivals == 1     \* client requests over a run that reaches the failover cap
CapFailures == 11    \* upstream failures over such a run, one above the cap
ReplaceArrivals == 2  \* client requests over a run that deletes and routes a channel again
ReplaceRequests == 2  \* control requests over such a run
ReplaceFailures == 1  \* upstream failures over such a run
MaxPieces == 3        \* body pieces a fetch receives before its body ends or fails
TwiceArrivals == 2    \* client requests before a control operation is repeated
TwiceRequests == 2    \* applications of the repeated control operation
TwiceFailures == 1    \* upstream failures before it
AccountControl == 2  \* put_account handlers running at once
AccountArrivals == 1 \* client requests over a run with put_account requests
AccountRequests == 2 \* put_account requests over such a run
AccountFailures == 1 \* upstream failures over such a run
SelectStreams == 2   \* streams of a drawn routing
SelectUrls == 2      \* urls of a stream of a drawn routing
SelectConn == 1      \* largest limit and count of a drawn account

\* ---- program constants ----
CHUNK_SIZE == 188 * 1024
MAX_FAILOVERS == 10

Channels == {"ch1", "ch2"}
AccountIds == {1, 2}
Slots == 1 .. MaxClients
Insts == 1 .. MaxActive
Ctls == 1 .. MaxControl

None == << >>
Some(x) == << x >>

\* ---- models.rs: routing configurations the control plane pushes ----
StreamUrl(a, u) == [account_id |-> a, url |-> u]
StreamConfig(i, us) == [id |-> i, urls |-> us]
RoutingA == << StreamConfig(10, << StreamUrl(1, "a") >>),
               StreamConfig(20, << StreamUrl(2, "b") >>) >>
RoutingB == << StreamConfig(10, << StreamUrl(1, "a"), StreamUrl(1, "a2") >>) >>
ChannelConfigs == {RoutingA, RoutingB}
MaxConnChoices == 0 .. MaxConn

VARIABLES
    channel_routes,   \* AppState.channel_routes : channel id -> streams
    active_channels,  \* AppState.active_channels : channel id -> ActiveChannel object
    accounts,         \* AppState.accounts : account id -> AccountState
    actives,          \* the ActiveChannel objects (Arc<ActiveChannel>)
    task,             \* upstream_loop: locals and position of each object's task
    req,              \* stream_channel handlers and the bodies they return
    ctl,              \* control handlers in flight
    arrivals,         \* client requests the run may still receive
    requests,         \* control requests the run may still receive
    failures,         \* upstream failures the run may still see
    acquired,         \* history: units of active_connections taken for each object
    released,         \* history: units of active_connections given back for it
    observed,         \* history: what the latest control request found on arrival
    upstream          \* fetch_upstream: one call, its body, buffer and published chunks

vars == << channel_routes, active_channels, accounts, actives, task, req, ctl,
           arrivals, requests, failures, acquired, released, observed, upstream >>

\* ---- map helpers (DashMap insert / remove) ----
Insert(m, k, v) == [x \in (DOMAIN m) \cup {k} |-> IF x = k THEN v ELSE m[x]]
Remove(m, k) == [x \in (DOMAIN m) \ {k} |-> m[x]]
EmptyMap == [x \in {} |-> 0]

\* ---- state.rs ----
AccountState(m, a) == [max_connections |-> m, active_connections |-> a]

\* the (stream, url) pairs of a routing in declaration order
RECURSIVE UrlPairs(_, _)
UrlPairs(sid, urls) ==
    IF urls = << >> THEN << >>
    ELSE << [stream_id |-> sid, account_id |-> Head(urls).account_id,
             url |-> Head(urls).url] >> \o UrlPairs(sid, Tail(urls))

RECURSIVE Pairs(_)
Pairs(streams) ==
    IF streams = << >> THEN << >>
    ELSE UrlPairs(Head(streams).id, Head(streams).urls) \o Pairs(Tail(streams))

\* the test with an unknown account refused
AdmissibleKnown(accs, a) ==
    /\ a \in DOMAIN accs
    /\ accs[a].max_connections = 0
          \/ accs[a].active_connections < accs[a].max_connections

\* state.rs:62-71, the test applied to one url entry
Admissible(accs, a) ==
    IF a \in DOMAIN accs
    THEN accs[a].max_connections = 0
         \/ accs[a].active_connections < accs[a].max_connections
    ELSE TRUE

RECURSIVE FirstAdmissible(_, _)
FirstAdmissible(accs, ps) ==
    IF ps = << >> THEN None
    ELSE IF Admissible(accs, Head(ps).account_id) THEN Some(Head(ps))
         ELSE FirstAdmissible(accs, Tail(ps))

select_stream(routes, accs, channel_id) ==
    IF channel_id \notin DOMAIN routes THEN None
    ELSE FirstAdmissible(accs, Pairs(routes[channel_id]))

RECURSIVE NextWalk(_, _, _, _, _)
NextWalk(accs, ps, fsid, faid, past_failed) ==
    IF ps = << >> THEN None
    ELSE IF Head(ps).stream_id = fsid /\ Head(ps).account_id = faid
         THEN NextWalk(accs, Tail(ps), fsid, faid, TRUE)
         ELSE IF ~past_failed
              THEN NextWalk(accs, Tail(ps), fsid, faid, past_failed)
              ELSE IF Admissible(accs, Head(ps).account_id) THEN Some(Head(ps))
                   ELSE NextWalk(accs, Tail(ps), fsid, faid, past_failed)

select_next_stream(routes, accs, channel_id, failed_stream_id, failed_account_id) ==
    IF channel_id \notin DOMAIN routes THEN None
    ELSE NextWalk(accs, Pairs(routes[channel_id]),
                  failed_stream_id, failed_account_id, FALSE)

\* fetch_add wraps at 2^32; the counter stays below MaxClients + MaxActive here
increment_connections(accs, a) ==
    IF a \in DOMAIN accs
    THEN [accs EXCEPT ![a].active_connections = @ + 1]
    ELSE accs

\* a decrement without the guard at 0
decrement_unguarded(accs, a) ==
    IF a \in DOMAIN accs
    THEN [accs EXCEPT ![a].active_connections = @ - 1]
    ELSE accs

decrement_connections(accs, a) ==
    IF a \in DOMAIN accs
    THEN [accs EXCEPT ![a].active_connections = IF @ > 0 THEN @ - 1 ELSE @]
    ELSE accs

\* ---- objects ----
\* guard_stop is history: a ClientGuard has sent the stop signal
FreeActive == [used |-> FALSE, channel_id |-> "", stream_id |-> 0, account_id |-> 0,
               url |-> "", stop |-> FALSE, clients |-> {}, guard_stop |-> FALSE]
FreeTask == [pc |-> "none", stream_id |-> 0, account_id |-> 0, url |-> "",
             failover_count |-> 0]
IdleReq == [pc |-> "idle", channel_id |-> "", active |-> 0]
\* alone, solo and removed are history: no other step, or no other control
\* request, happened since this request arrived; what it has removed so far
IdleCtl == [pc |-> "idle", op |-> "none", channel_id |-> "", active |-> 0,
            account_id |-> 0, max |-> 0, todo |-> {}, payload |-> None,
            alone |-> TRUE, solo |-> TRUE, removed |-> {}]

\* a client or task step happens while control requests are in flight
Disturbed(ct) ==
    [k \in DOMAIN ct |->
       IF ct[k].pc = "idle" THEN ct[k]
       ELSE [ct[k] EXCEPT !.alone = FALSE, !.removed = {}]]

\* control handler k takes a step, or a request arrives at k
Overlapped(ct, k) ==
    [j \in DOMAIN ct |->
       IF j = k \/ ct[j].pc = "idle" THEN ct[j]
       ELSE [ct[j] EXCEPT !.alone = FALSE, !.solo = FALSE, !.removed = {}]]

Arrived(ct, k, r) ==
    LET others == {j \in DOMAIN ct : j # k /\ ct[j].pc # "idle"}
    IN [Overlapped(ct, k) EXCEPT ![k] =
          IF r.pc = "idle" THEN r
          ELSE [r EXCEPT !.alone = (others = {}), !.solo = (others = {})]]


\* the state once the control plane has pushed its first configuration,
\* before any client has arrived
Configured ==
    [routes |-> ("ch1" :> RoutingA @@ "ch2" :> RoutingB),
     accounts |-> (1 :> AccountState(1, 0) @@ 2 :> AccountState(1, 0))]

\* AppState::new (state.rs:48-55), and the configured state
Configurations == { [routes |-> EmptyMap, accounts |-> EmptyMap], Configured }

\* no fetch_upstream call is looked at
NoFetch == [pc |-> "none"]

\* control requests are not observed
Unobserved == [on |-> FALSE, op |-> None, found |-> None]

InitWith(cfs, na, nr, nf) ==
    /\ \E cf \in cfs :
          /\ channel_routes = cf.routes
          /\ accounts = cf.accounts
    /\ active_channels = EmptyMap
    /\ actives = [i \in Insts |-> FreeActive]
    /\ task = [i \in Insts |-> FreeTask]
    /\ req = [s \in Slots |-> IdleReq]
    /\ ctl = [k \in Ctls |-> IdleCtl]
    /\ arrivals = na
    /\ requests = nr
    /\ failures = nf
    /\ acquired = [i \in Insts |-> 0]
    /\ released = [i \in Insts |-> 0]
    /\ observed = Unobserved
    /\ upstream = NoFetch

Init == InitWith(Configurations, MaxArrivals, MaxRequests, MaxFailures)

\* An ActiveChannel object is dropped when its task has exited (or was never
\* spawned) and no handler, body or map entry holds the Arc any more.
Referenced(i, ac, rq, ct) ==
    \/ \E c \in DOMAIN ac : ac[c] = i
    \/ \E s \in DOMAIN rq : rq[s].active = i
    \/ \E k \in DOMAIN ct : ct[k].active = i

Dropped(i, tk, ac, rq, ct) ==
    /\ tk[i].pc \in {"exited", "none"}
    /\ ~Referenced(i, ac, rq, ct)

Reclaim(f, free, tk, ac, rq, ct) ==
    [i \in Insts |-> IF Dropped(i, tk, ac, rq, ct) THEN free ELSE f[i]]

\* what the control operations leave behind: the routes, the registered
\* channels, the objects told to stop and the accounts
Observation ==
    [routes |-> channel_routes,
     registered |-> active_channels,
     stopped |-> {i \in Insts : actives[i].used /\ actives[i].stop},
     accounts |-> accounts]

\* Last conjunct of every action: the new objects, task locals and history
\* counters, with dropped objects returned to the free pool; where control
\* requests are observed, the state each of them arrives in is kept.
Settle(av, tk, aq, rl) ==
    /\ actives' = Reclaim(av, FreeActive, tk, active_channels', req', ctl')
    /\ task' = Reclaim(tk, FreeTask, tk, active_channels', req', ctl')
    /\ acquired' = Reclaim(aq, 0, tk, active_channels', req', ctl')
    /\ released' = Reclaim(rl, 0, tk, active_channels', req', ctl')
    /\ observed' = IF observed.on /\ requests' < requests
                   THEN [observed EXCEPT !.found = Some(Observation)]
                   ELSE observed
    /\ upstream' = upstream

FreeInsts == {i \in Insts : ~actives[i].used}
LowestFree == CHOOSE i \in FreeInsts : \A j \in FreeInsts : i <= j

\* ---- stream.rs: stream_channel ----

\* stream.rs:59-60: a request arrives and looks the channel up
ClientArrives(s, c) ==
    /\ req[s].pc = "idle"
    /\ arrivals > 0
    /\ arrivals' = arrivals - 1
    /\ \A t \in Slots : t < s => req[t].pc # "idle"
    /\ UNCHANGED << requests, failures >>
    /\ req' = [req EXCEPT ![s] =
                 IF c \in DOMAIN active_channels
                 THEN [pc |-> "attach", channel_id |-> c,
                       active |-> active_channels[c]]
                 ELSE [pc |-> "select", channel_id |-> c, active |-> 0]]
    /\ ctl' = Disturbed(ctl)
    /\ UNCHANGED << channel_routes, active_channels, accounts >>
    /\ Settle(actives, task, acquired, released)

\* an answer that leaves a unit counted on the first account of the routing
RespondUnavailableCounting(s) ==
    /\ req[s].pc = "select"
    /\ select_stream(channel_routes, accounts, req[s].channel_id) = None
    /\ req' = [req EXCEPT ![s] = IdleReq]
    /\ ctl' = Disturbed(ctl)
    /\ accounts' = IF req[s].channel_id \in DOMAIN channel_routes
                       /\ Pairs(channel_routes[req[s].channel_id]) # << >>
                   THEN increment_connections(accounts,
                           Head(Pairs(channel_routes[req[s].channel_id])).account_id)
                   ELSE accounts
    /\ UNCHANGED << channel_routes, active_channels, arrivals, requests, failures >>
    /\ Settle(actives, task, acquired, released)

\* stream.rs:63-68: select_stream found nothing, answer 503
RespondUnavailable(s) ==
    /\ req[s].pc = "select"
    /\ select_stream(channel_routes, accounts, req[s].channel_id) = None
    /\ req' = [req EXCEPT ![s] = IdleReq]
    /\ ctl' = Disturbed(ctl)
    /\ UNCHANGED << channel_routes, active_channels, accounts, arrivals, requests, failures >>
    /\ Settle(actives, task, acquired, released)

\* stream.rs:63-70 and upstream.rs:25-37: a pair is selected and start_channel
\* builds the ActiveChannel
SelectAndBuild(s) ==
    /\ req[s].pc = "select"
    /\ select_stream(channel_routes, accounts, req[s].channel_id) # None
    /\ FreeInsts # {}
    /\ LET p == select_stream(channel_routes, accounts, req[s].channel_id)[1]
           i == LowestFree
       IN /\ req' = [req EXCEPT ![s] = [@ EXCEPT !.pc = "start_inc", !.active = i]]
          /\ ctl' = Disturbed(ctl)
          /\ UNCHANGED << channel_routes, active_channels, accounts, arrivals, requests, failures >>
          /\ Settle([actives EXCEPT ![i] =
                        [used |-> TRUE, channel_id |-> req[s].channel_id,
                         stream_id |-> p.stream_id, account_id |-> p.account_id,
                         url |-> p.url, stop |-> FALSE, clients |-> {},
                         guard_stop |-> FALSE]],
                    [task EXCEPT ![i] =
                        [pc |-> "new", stream_id |-> p.stream_id,
                         account_id |-> p.account_id, url |-> p.url,
                         failover_count |-> 0]],
                    acquired, released)

\* upstream.rs:39
StartIncrement(s) ==
    /\ req[s].pc = "start_inc"
    /\ LET i == req[s].active
       IN /\ accounts' = increment_connections(accounts, actives[i].account_id)
          /\ req' = [req EXCEPT ![s].pc = "start_insert"]
          /\ ctl' = Disturbed(ctl)
          /\ UNCHANGED << channel_routes, active_channels, arrivals, requests, failures >>
          /\ Settle(actives, task, [acquired EXCEPT ![i] = @ + 1], released)

\* upstream.rs:40-59: register the object and spawn its task
StartInsert(s) ==
    /\ req[s].pc = "start_insert"
    /\ LET i == req[s].active
       IN /\ active_channels' = Insert(active_channels, req[s].channel_id, i)
          /\ req' = [req EXCEPT ![s].pc = "attach"]
          /\ ctl' = Disturbed(ctl)
          /\ UNCHANGED << channel_routes, accounts, arrivals, requests, failures >>
          /\ Settle(actives, [task EXCEPT ![i].pc = "fetch"], acquired, released)

\* stream.rs:74-87: subscribe and register the client, return the body
Attach(s) ==
    /\ req[s].pc = "attach"
    /\ LET i == req[s].active
       IN /\ req' = [req EXCEPT ![s].pc = "streaming"]
          /\ ctl' = Disturbed(ctl)
          /\ UNCHANGED << channel_routes, active_channels, accounts, arrivals, requests, failures >>
          /\ Settle([actives EXCEPT ![i].clients = @ \cup {s}],
                    task, acquired, released)

\* A broadcast receiver sees Closed once every Sender is gone: the task's tx
\* and the clone stored in the ActiveChannel (state.rs:34).
SendersAlive(i) ==
    \/ task[i].pc \notin {"exited", "none"}
    \/ actives[i].used

\* stream.rs:116-143: the body is polled. While a Sender lives, recv yields a
\* chunk or the ticker a keepalive (the byte counters are not modelled); on
\* Closed the loop breaks and the guard drops.
Poll(s) ==
    /\ req[s].pc = "streaming"
    /\ LET i == req[s].active
       IN IF SendersAlive(i)
          THEN UNCHANGED vars
          ELSE /\ req' = [req EXCEPT ![s].pc = "drop_check"]
               /\ ctl' = Disturbed(ctl)
               /\ UNCHANGED << channel_routes, active_channels, accounts, arrivals, requests, failures >>
               /\ Settle([actives EXCEPT ![i].clients = @ \ {s}],
                         task, acquired, released)

\* a body whose drop leaves the client registered
DisconnectKeeping(s) ==
    /\ req[s].pc = "streaming"
    /\ req' = [req EXCEPT ![s].pc = "drop_check"]
    /\ ctl' = Disturbed(ctl)
    /\ UNCHANGED << channel_routes, active_channels, accounts, arrivals, requests, failures >>
    /\ Settle(actives, task, acquired, released)

\* stream.rs:35-37: the body is dropped (client closed the connection),
\* Drop for ClientGuard removes the client
Disconnect(s) ==
    /\ req[s].pc = "streaming"
    /\ LET i == req[s].active
       IN /\ req' = [req EXCEPT ![s].pc = "drop_check"]
          /\ ctl' = Disturbed(ctl)
          /\ UNCHANGED << channel_routes, active_channels, accounts, arrivals, requests, failures >>
          /\ Settle([actives EXCEPT ![i].clients = @ \ {s}],
                    task, acquired, released)

\* a guard that forgets the stop signal
DropCheckSilent(s) ==
    /\ req[s].pc = "drop_check"
    /\ req' = [req EXCEPT ![s] = IdleReq]
    /\ ctl' = Disturbed(ctl)
    /\ UNCHANGED << channel_routes, active_channels, accounts, arrivals, requests, failures >>
    /\ Settle(actives, task, acquired, released)

\* stream.rs:46-49: last client stops the channel
DropCheck(s) ==
    /\ req[s].pc = "drop_check"
    /\ LET i == req[s].active
       IN /\ req' = [req EXCEPT ![s] = IdleReq]
          /\ ctl' = Disturbed(ctl)
          /\ UNCHANGED << channel_routes, active_channels, accounts, arrivals, requests, failures >>
          /\ Settle(IF actives[i].clients = {}
                    THEN [actives EXCEPT ![i].stop = TRUE, ![i].guard_stop = TRUE]
                    ELSE actives,
                    task, acquired, released)

\* ---- upstream.rs: upstream_loop ----

\* a failure after which the loop fails over whatever its count
FetchFailsUncapped(i) ==
    /\ task[i].pc = "fetch"
    /\ failures > 0
    /\ failures' = failures - 1
    /\ ctl' = Disturbed(ctl)
    /\ UNCHANGED << channel_routes, active_channels, accounts, req, arrivals, requests >>
    /\ Settle(actives,
              [task EXCEPT ![i] =
                 IF actives[i].stop THEN [@ EXCEPT !.pc = "cleanup"]
                 ELSE [@ EXCEPT !.failover_count = @ + 1, !.pc = "release"]],
              acquired, released)

\* upstream.rs:86-102: fetch_upstream returns an error and the loop looks at
\* the stop signal and the failover count
FetchFails(i) ==
    /\ task[i].pc = "fetch"
    /\ failures > 0
    /\ failures' = failures - 1
    /\ ctl' = Disturbed(ctl)
    /\ UNCHANGED << channel_routes, active_channels, accounts, req, arrivals, requests >>
    /\ Settle(actives,
              [task EXCEPT ![i] =
                 IF actives[i].stop THEN [@ EXCEPT !.pc = "cleanup"]
                 ELSE [@ EXCEPT !.failover_count = @ + 1,
                                !.pc = IF task[i].failover_count + 1 >= MAX_FAILOVERS
                                       THEN "cleanup" ELSE "release"]],
              acquired, released)

\* upstream.rs:156-158, 89-92: the stop signal interrupts the read and the loop breaks
FetchStopped(i) ==
    /\ task[i].pc = "fetch"
    /\ actives[i].stop
    /\ ctl' = Disturbed(ctl)
    /\ UNCHANGED << channel_routes, active_channels, accounts, req, arrivals, requests, failures >>
    /\ Settle(actives, [task EXCEPT ![i].pc = "cleanup"], acquired, released)

\* upstream.rs:104
TaskRelease(i) ==
    /\ task[i].pc = "release"
    /\ accounts' = decrement_connections(accounts, task[i].account_id)
    /\ ctl' = Disturbed(ctl)
    /\ UNCHANGED << channel_routes, active_channels, req, arrivals, requests, failures >>
    /\ Settle(actives, [task EXCEPT ![i].pc = "select_next"],
              acquired, [released EXCEPT ![i] = @ + 1])

\* upstream.rs:106-122
TaskSelectNext(i) ==
    /\ task[i].pc = "select_next"
    /\ LET r == select_next_stream(channel_routes, accounts, actives[i].channel_id,
                                   task[i].stream_id, task[i].account_id)
       IN /\ ctl' = Disturbed(ctl)
          /\ UNCHANGED << channel_routes, active_channels, accounts, req, arrivals, requests, failures >>
          /\ Settle(actives,
                    [task EXCEPT ![i] =
                       IF r = None THEN [@ EXCEPT !.pc = "cleanup"]
                       ELSE [@ EXCEPT !.pc = "acquire", !.stream_id = r[1].stream_id,
                                      !.account_id = r[1].account_id, !.url = r[1].url]],
                    acquired, released)

\* upstream.rs:118
TaskAcquire(i) ==
    /\ task[i].pc = "acquire"
    /\ accounts' = increment_connections(accounts, task[i].account_id)
    /\ ctl' = Disturbed(ctl)
    /\ UNCHANGED << channel_routes, active_channels, req, arrivals, requests, failures >>
    /\ Settle(actives, [task EXCEPT ![i].pc = "fetch"],
              [acquired EXCEPT ![i] = @ + 1], released)

\* upstream.rs:127
TaskCleanup(i) ==
    /\ task[i].pc = "cleanup"
    /\ accounts' = decrement_connections(accounts, task[i].account_id)
    /\ ctl' = Disturbed(ctl)
    /\ UNCHANGED << channel_routes, active_channels, req, arrivals, requests, failures >>
    /\ Settle(actives, [task EXCEPT ![i].pc = "remove"],
              acquired, [released EXCEPT ![i] = @ + 1])

\* a task that returns and leaves its map entry behind
TaskExitLeaving(i) ==
    /\ task[i].pc = "remove"
    /\ ctl' = Disturbed(ctl)
    /\ UNCHANGED << channel_routes, active_channels, accounts, req, arrivals, requests, failures >>
    /\ Settle(actives, [task EXCEPT ![i].pc = "exited"], acquired, released)

\* upstream.rs:128-130: remove the map entry of the channel id and exit
TaskExit(i) ==
    /\ task[i].pc = "remove"
    /\ active_channels' = Remove(active_channels, actives[i].channel_id)
    /\ ctl' = Disturbed(ctl)
    /\ UNCHANGED << channel_routes, accounts, req, arrivals, requests, failures >>
    /\ Settle(actives, [task EXCEPT ![i].pc = "exited"], acquired, released)

\* ---- control.rs ----

\* u64::from_str on the key of a sync account entry (control.rs:107, 121)
DigitValue(c) ==
    CASE c = "0" -> 0 [] c = "1" -> 1 [] c = "2" -> 2 [] c = "3" -> 3 [] c = "4" -> 4
      [] c = "5" -> 5 [] c = "6" -> 6 [] c = "7" -> 7 [] c = "8" -> 8 [] c = "9" -> 9
      [] OTHER -> -1

RECURSIVE ParseDigits(_, _)
ParseDigits(str, acc) ==
    IF str = << >> THEN Some(acc)
    ELSE IF DigitValue(Head(str)) < 0 THEN None
         ELSE ParseDigits(Tail(str), acc * 10 + DigitValue(Head(str)))

ParseU64(str) == IF str = << >> THEN None ELSE ParseDigits(str, 0)

\* the ids a sync payload names (control.rs:104-108)
new_account_ids(p) ==
    {ParseU64(key)[1] : key \in {x \in DOMAIN p.accounts : ParseU64(x) # None}}

\* sync requests of the control plane: the configured state again; a payload
\* that drops "ch1" and writes account 1 with a leading zero; a payload with
\* no channel, a key that is no number and an account not yet registered
SyncPayloads ==
    { [channels |-> ("ch1" :> RoutingA @@ "ch2" :> RoutingB),
       accounts |-> (<< "1" >> :> 1 @@ << "2" >> :> 1)],
      [channels |-> ("ch2" :> RoutingB),
       accounts |-> (<< "0", "1" >> :> 1 @@ << "2" >> :> 1)],
      [channels |-> EmptyMap,
       accounts |-> (<< "x" >> :> 1 @@ << "3" >> :> 1)] }

\* a put that also stops the channel running under the id
put_channel_stopping(k, c, config) ==
    /\ ctl[k].pc = "idle"
    /\ requests > 0
    /\ requests' = requests - 1
    /\ channel_routes' = Insert(channel_routes, c, config)
    /\ ctl' = Overlapped(ctl, k)
    /\ UNCHANGED << active_channels, accounts, req, arrivals, failures >>
    /\ Settle([i \in Insts |->
                 IF c \in DOMAIN active_channels /\ active_channels[c] = i
                 THEN [actives[i] EXCEPT !.stop = TRUE] ELSE actives[i]],
              task, acquired, released)

\* control.rs:10-23
put_channel(k, c, config) ==
    /\ ctl[k].pc = "idle"
    /\ requests > 0
    /\ requests' = requests - 1
    /\ channel_routes' = Insert(channel_routes, c, config)
    /\ ctl' = Overlapped(ctl, k)
    /\ UNCHANGED << active_channels, accounts, req, arrivals, failures >>
    /\ Settle(actives, task, acquired, released)

\* control.rs:29: delete_channel removes the route
DeleteArrives(k, c) ==
    /\ ctl[k].pc = "idle"
    /\ requests > 0
    /\ requests' = requests - 1
    /\ channel_routes' = Remove(channel_routes, c)
    /\ ctl' = Arrived(ctl, k, [IdleCtl EXCEPT !.op = "delete", !.pc = "rm_active",
                                             !.channel_id = c])
    /\ UNCHANGED << active_channels, accounts, req, arrivals, failures >>
    /\ Settle(actives, task, acquired, released)

\* where a handler goes once one account entry is dealt with
AfterAccounts(r) ==
    IF r.op = "sync" /\ r.todo # {}
    THEN [r EXCEPT !.pc = "acc_up", !.account_id = 0, !.max = 0]
    ELSE IdleCtl

\* control.rs:104-112 follows the last route upsert
AfterRoutes(r) ==
    [r EXCEPT !.pc = "acc_snapshot", !.todo = {}, !.channel_id = "", !.active = 0]

\* where a handler goes once the removal of one channel id is finished
AfterRemoval(r) ==
    IF r.op = "delete" THEN IdleCtl
    ELSE IF r.todo # {}
         THEN [r EXCEPT !.pc = "rm_loop", !.channel_id = "", !.active = 0]
         ELSE IF DOMAIN r.payload.channels = {} THEN AfterRoutes(r)
              ELSE [r EXCEPT !.pc = "ins_routes", !.channel_id = "", !.active = 0,
                             !.todo = DOMAIN r.payload.channels]

\* control.rs:32 and 85: active_channels.remove(id)
RemoveActive(k) ==
    /\ ctl[k].pc = "rm_active"
    /\ LET c == ctl[k].channel_id
           i == IF c \in DOMAIN active_channels THEN active_channels[c] ELSE 0
           seen == IF ctl[k].alone
                   THEN ctl[k].removed \cup
                        {[id |-> c, inst |-> i,
                          account |-> IF i = 0 THEN 0 ELSE task[i].account_id]}
                   ELSE {}
       IN /\ active_channels' = Remove(active_channels, c)
          /\ ctl' = [Overlapped(ctl, k) EXCEPT ![k] =
                       IF i # 0
                       THEN [@ EXCEPT !.pc = "rm_stop", !.active = i, !.removed = seen]
                       ELSE AfterRemoval([@ EXCEPT !.removed = seen])]
          /\ UNCHANGED << channel_routes, accounts, req, arrivals, requests, failures >>
          /\ Settle(actives, task, acquired, released)

\* control.rs:33 and 86: active.stop_tx.send(true)
SendStop(k) ==
    /\ ctl[k].pc = "rm_stop"
    /\ ctl' = [Overlapped(ctl, k) EXCEPT ![k].pc = "rm_dec"]
    /\ UNCHANGED << channel_routes, active_channels, accounts, req, arrivals, requests, failures >>
    /\ Settle([actives EXCEPT ![ctl[k].active].stop = TRUE], task, acquired, released)

\* control.rs:34 and 87: decrement_connections(active.account_id)
ReleaseSlot(k) ==
    /\ ctl[k].pc = "rm_dec"
    /\ LET i == ctl[k].active
       IN /\ accounts' = decrement_connections(accounts, actives[i].account_id)
          /\ ctl' = [Overlapped(ctl, k) EXCEPT ![k] = AfterRemoval(@)]
          /\ UNCHANGED << channel_routes, active_channels, req, arrivals, requests, failures >>
          /\ Settle(actives, task, acquired, [released EXCEPT ![i] = @ + 1])

\* control.rs:49-52: put_account on a registered account stores the limit
PutAccountStore(k, a, m) ==
    /\ ctl[k].pc = "idle"
    /\ requests > 0
    /\ requests' = requests - 1
    /\ a \in DOMAIN accounts
    /\ accounts' = [accounts EXCEPT ![a].max_connections = m]
    /\ ctl' = Overlapped(ctl, k)
    /\ UNCHANGED << channel_routes, active_channels, req, arrivals, failures >>
    /\ Settle(actives, task, acquired, released)

\* control.rs:49, 53: put_account finds the account absent
PutAccountAbsent(k, a, m) ==
    /\ ctl[k].pc = "idle"
    /\ requests > 0
    /\ requests' = requests - 1
    /\ a \notin DOMAIN accounts
    /\ ctl' = Arrived(ctl, k, [IdleCtl EXCEPT !.op = "put_account", !.pc = "acc_ins",
                                             !.account_id = a, !.max = m])
    /\ UNCHANGED << channel_routes, active_channels, accounts, req, arrivals, failures >>
    /\ Settle(actives, task, acquired, released)

\* control.rs:54-60 and 128-136: insert a fresh AccountState
InsertAccount(k) ==
    /\ ctl[k].pc = "acc_ins"
    /\ accounts' = Insert(accounts, ctl[k].account_id, AccountState(ctl[k].max, 0))
    /\ ctl' = [Overlapped(ctl, k) EXCEPT ![k] = AfterAccounts(@)]
    /\ UNCHANGED << channel_routes, active_channels, req, arrivals, requests, failures >>
    /\ Settle(actives, task, acquired, released)

\* control.rs:75-80: sync snapshots the routed ids
SyncArrives(k, p) ==
    /\ ctl[k].pc = "idle"
    /\ requests > 0
    /\ requests' = requests - 1
    /\ ctl' = Arrived(ctl, k,
                 AfterRemoval([IdleCtl EXCEPT !.op = "sync", !.payload = p,
                     !.todo = (DOMAIN channel_routes) \ (DOMAIN p.channels)]))
    /\ UNCHANGED << channel_routes, active_channels, accounts, req, arrivals, failures >>
    /\ Settle(actives, task, acquired, released)

\* a sync that stops the channel of a dropped id and keeps its route
SyncRemoveRouteKept(k) ==
    /\ ctl[k].pc = "rm_loop"
    /\ \E id \in ctl[k].todo :
          ctl' = [Overlapped(ctl, k) EXCEPT ![k] =
                    [@ EXCEPT !.pc = "rm_active", !.channel_id = id,
                              !.todo = @ \ {id}]]
    /\ UNCHANGED << channel_routes, active_channels, accounts, req, arrivals, requests, failures >>
    /\ Settle(actives, task, acquired, released)

\* control.rs:81-83: sync removes the route of an id the payload lacks
SyncRemoveRoute(k) ==
    /\ ctl[k].pc = "rm_loop"
    /\ \E id \in ctl[k].todo :
          /\ channel_routes' = Remove(channel_routes, id)
          /\ ctl' = [Overlapped(ctl, k) EXCEPT ![k] =
                       [@ EXCEPT !.pc = "rm_active", !.channel_id = id,
                                 !.todo = @ \ {id}]]
    /\ UNCHANGED << active_channels, accounts, req, arrivals, requests, failures >>
    /\ Settle(actives, task, acquired, released)

\* control.rs:94-101: sync upserts one route of the payload
SyncInsertRoute(k) ==
    /\ ctl[k].pc = "ins_routes"
    /\ \E id \in ctl[k].todo :
          /\ channel_routes' = Insert(channel_routes, id, ctl[k].payload.channels[id])
          /\ ctl' = [Overlapped(ctl, k) EXCEPT ![k] =
                       IF @.todo = {id} THEN AfterRoutes(@)
                       ELSE [@ EXCEPT !.todo = @ \ {id}]]
    /\ UNCHANGED << active_channels, accounts, req, arrivals, requests, failures >>
    /\ Settle(actives, task, acquired, released)

\* control.rs:120 follows the last account removal
AfterAccountRemoval(r) ==
    IF r.todo # {} THEN r
    ELSE AfterAccounts([r EXCEPT !.todo = DOMAIN r.payload.accounts])

\* control.rs:104-112: sync snapshots the registered account ids
SyncSnapshotAccounts(k) ==
    /\ ctl[k].pc = "acc_snapshot"
    /\ ctl' = [Overlapped(ctl, k) EXCEPT ![k] =
                 AfterAccountRemoval([@ EXCEPT !.pc = "acc_rm",
                     !.todo = (DOMAIN accounts) \ new_account_ids(ctl[k].payload)])]
    /\ UNCHANGED << channel_routes, active_channels, accounts, req, arrivals, requests, failures >>
    /\ Settle(actives, task, acquired, released)

\* control.rs:113-117: sync removes an account the payload lacks
SyncRemoveAccount(k) ==
    /\ ctl[k].pc = "acc_rm"
    /\ \E id \in ctl[k].todo :
          /\ accounts' = Remove(accounts, id)
          /\ ctl' = [Overlapped(ctl, k) EXCEPT ![k] =
                       AfterAccountRemoval([@ EXCEPT !.todo = @ \ {id}])]
    /\ UNCHANGED << channel_routes, active_channels, req, arrivals, requests, failures >>
    /\ Settle(actives, task, acquired, released)

\* control.rs:120-138: sync handles one account entry of the payload
SyncUpdateAccount(k) ==
    /\ ctl[k].pc = "acc_up"
    /\ \E key \in ctl[k].todo :
          LET rest == [ctl[k] EXCEPT !.todo = @ \ {key}]
              m == ctl[k].payload.accounts[key]
              id == ParseU64(key)
          IN IF id = None
             THEN /\ accounts' = accounts
                  /\ ctl' = [Overlapped(ctl, k) EXCEPT ![k] = AfterAccounts(rest)]
             ELSE IF id[1] \in DOMAIN accounts
                  THEN /\ accounts' = [accounts EXCEPT ![id[1]].max_connections = m]
                       /\ ctl' = [Overlapped(ctl, k) EXCEPT ![k] = AfterAccounts(rest)]
                  ELSE /\ accounts' = accounts
                       /\ ctl' = [Overlapped(ctl, k) EXCEPT ![k] =
                                    [rest EXCEPT !.pc = "acc_ins", !.max = m,
                                                 !.account_id = id[1]]]
    /\ UNCHANGED << channel_routes, active_channels, req, arrivals, requests, failures >>
    /\ Settle(actives, task, acquired, released)

ClientStep(s) ==
    \/ \E c \in Channels : ClientArrives(s, c)
    \/ RespondUnavailable(s)
    \/ SelectAndBuild(s)
    \/ StartIncrement(s)
    \/ StartInsert(s)
    \/ Attach(s)
    \/ Poll(s)
    \/ Disconnect(s)
    \/ DropCheck(s)

TaskStep(i) ==
    \/ FetchFails(i)
    \/ FetchStopped(i)
    \/ TaskRelease(i)
    \/ TaskSelectNext(i)
    \/ TaskAcquire(i)
    \/ TaskCleanup(i)
    \/ TaskExit(i)

ChannelStep(k) ==
    \/ \E c \in Channels, config \in ChannelConfigs : put_channel(k, c, config)
    \/ \E c \in Channels : DeleteArrives(k, c)
    \/ RemoveActive(k)
    \/ SendStop(k)
    \/ ReleaseSlot(k)

AccountStep(k) ==
    \/ \E a \in AccountIds, m \in MaxConnChoices : PutAccountStore(k, a, m)
    \/ \E a \in AccountIds, m \in MaxConnChoices : PutAccountAbsent(k, a, m)
    \/ InsertAccount(k)

SyncStep(k) ==
    \/ \E p \in SyncPayloads : SyncArrives(k, p)
    \/ SyncRemoveRoute(k)
    \/ RemoveActive(k)
    \/ SendStop(k)
    \/ ReleaseSlot(k)
    \/ SyncInsertRoute(k)
    \/ SyncSnapshotAccounts(k)
    \/ SyncRemoveAccount(k)
    \/ SyncUpdateAccount(k)
    \/ InsertAccount(k)

\* Clients, upstream tasks and the channel routes of the control surface
Next ==
    \/ \E s \in Slots : ClientStep(s)
    \/ \E i \in Insts : TaskStep(i)
    \/ \E k \in Ctls : ChannelStep(k)

Spec == Init /\ [][Next]_vars

\* Clients, upstream tasks and the bulk sync
SyncNext ==
    \/ \E s \in Slots : ClientStep(s)
    \/ \E i \in Insts : TaskStep(i)
    \/ \E k \in Ctls : SyncStep(k)

SyncInit == InitWith({Configured}, SyncArrivals, SyncRequests, SyncFailures)

SyncSpec == SyncInit /\ [][SyncNext]_vars

\* ---- selection over drawn routings and account tables ----
SeqsUpTo(S, n) == UNION {[1 .. m -> S] : m \in 0 .. n}

UrlChoices == {StreamUrl(1, "a"), StreamUrl(2, "b"), StreamUrl(1, "a2")}
StreamChoices ==
    {StreamConfig(id, us) : id \in {10, 20}, us \in SeqsUpTo(UrlChoices, SelectUrls)}
Routings == SeqsUpTo(StreamChoices, SelectStreams)

\* every table over a subset of the account ids; a count above zero is held
\* by channels outside the channel the run looks at
AccountTables ==
    UNION {[ids -> {AccountState(m, a) : m \in 0 .. SelectConn, a \in 0 .. SelectConn}]
              : ids \in SUBSET AccountIds}

SelectConfigurations ==
    {[routes |-> ("ch1" :> r), accounts |-> t] : r \in Routings, t \in AccountTables}

SelectInit == InitWith(SelectConfigurations, 1, 1, 1)

\* One client, the start of its channel, one upstream failure with the
\* failover it causes, and one replacement of the routing of "ch1"
SelectNext ==
    \/ \E s \in Slots :
          \/ \E c \in Channels : ClientArrives(s, c)
          \/ RespondUnavailable(s)
          \/ SelectAndBuild(s)
          \/ StartIncrement(s)
          \/ StartInsert(s)
          \/ Attach(s)
    \/ \E i \in Insts :
          \/ FetchFails(i)
          \/ TaskRelease(i)
          \/ TaskSelectNext(i)
          \/ TaskAcquire(i)
          \/ TaskCleanup(i)
          \/ TaskExit(i)
    \/ \E k \in Ctls, config \in ChannelConfigs : put_channel(k, "ch1", config)

SelectSpec == SelectInit /\ [][SelectNext]_vars

\* The runtime keeps polling every spawned task, handler and response body,
\* and the stop signal interrupts the upstream read (upstream.rs:156-158).
\* Client arrivals, client disconnects and upstream failures are up to the
\* environment.
Fairness ==
    /\ \A s \in Slots :
          /\ WF_vars(RespondUnavailable(s) \/ SelectAndBuild(s) \/ StartIncrement(s)
                      \/ StartInsert(s) \/ Attach(s))
          /\ WF_vars(Poll(s))
          /\ WF_vars(DropCheck(s))
    /\ \A i \in Insts :
          /\ WF_vars(FetchStopped(i))
          /\ WF_vars(TaskRelease(i) \/ TaskSelectNext(i) \/ TaskAcquire(i)
                      \/ TaskCleanup(i) \/ TaskExit(i))

FairInit == InitWith(Configurations, FairArrivals, 0, FairFailures)

\* Clients and upstream tasks
FairNext ==
    \/ \E s \in Slots : ClientStep(s)
    \/ \E i \in Insts : TaskStep(i)

FairSpec == FairInit /\ [][FairNext]_vars /\ Fairness

\* ---- a channel whose upstreams keep failing ----
\* stream 10 is declared again after stream 20, so a failover from either
\* stream finds the other one after it
RoutingLoop ==
    << StreamConfig(10, << StreamUrl(1, "a") >>),
       StreamConfig(20, << StreamUrl(2, "b") >>),
       StreamConfig(10, << StreamUrl(1, "a") >>) >>

CapConfigurations ==
    {[routes |-> ("ch1" :> RoutingLoop), accounts |-> Configured.accounts]}

CapInit == InitWith(CapConfigurations, CapArrivals, 0, CapFailures)

\* fetch_upstream returns: the connection or the read fails, or the body ends
\* (upstream.rs:141-187)
Returns == \A i \in Insts : WF_vars(FetchFails(i))

CapSpec == CapInit /\ [][FairNext]_vars /\ Fairness /\ Returns

\* ---- concurrent put_account requests ----
AccountCtls == 1 .. AccountControl

\* AppState::new with one channel routed and no account yet
AccountInit ==
    /\ channel_routes = ("ch1" :> RoutingA)
    /\ accounts = EmptyMap
    /\ active_channels = EmptyMap
    /\ actives = [i \in Insts |-> FreeActive]
    /\ task = [i \in Insts |-> FreeTask]
    /\ req = [s \in Slots |-> IdleReq]
    /\ ctl = [k \in AccountCtls |-> IdleCtl]
    /\ arrivals = AccountArrivals
    /\ requests = AccountRequests
    /\ failures = AccountFailures
    /\ acquired = [i \in Insts |-> 0]
    /\ released = [i \in Insts |-> 0]
    /\ observed = Unobserved
    /\ upstream = NoFetch

\* Clients, upstream tasks and put_account handlers
AccountNext ==
    \/ \E s \in Slots : ClientStep(s)
    \/ \E i \in Insts : TaskStep(i)
    \/ \E k \in AccountCtls : AccountStep(k)

AccountSpec == AccountInit /\ [][AccountNext]_vars

\* ---- a control operation applied again ----
\* a sync whose account keys "1" and "01" name the same account with
\* different limits
ClashPayload ==
    [channels |-> ("ch1" :> RoutingA @@ "ch2" :> RoutingB),
     accounts |-> (<< "1" >> :> 1 @@ << "0", "1" >> :> 0 @@ << "2" >> :> 1)]

Operation(kind, c, config, a, m, p) ==
    [kind |-> kind, channel_id |-> c, config |-> config,
     account_id |-> a, max |-> m, payload |-> p]

Operations ==
    {Operation("put_channel", c, config, 0, 0, None) :
        c \in Channels, config \in ChannelConfigs}
    \cup {Operation("delete", c, << >>, 0, 0, None) : c \in Channels}
    \cup {Operation("put_account", "", << >>, a, m, None) :
             a \in AccountIds, m \in MaxConnChoices}
    \cup {Operation("sync", "", << >>, 0, 0, Some(p)) :
             p \in SyncPayloads \cup {ClashPayload}}

\* the request of operation o arrives at handler k, no other control request
\* being in flight
Apply(k, o) ==
    /\ \A j \in Ctls : ctl[j].pc = "idle"
    /\ \/ o.kind = "put_channel" /\ put_channel(k, o.channel_id, o.config)
       \/ o.kind = "delete" /\ DeleteArrives(k, o.channel_id)
       \/ o.kind = "put_account" /\ PutAccountStore(k, o.account_id, o.max)
       \/ o.kind = "put_account" /\ PutAccountAbsent(k, o.account_id, o.max)
       \/ o.kind = "sync" /\ SyncArrives(k, o.payload[1])

TwiceInit ==
    /\ \E cf \in Configurations :
          /\ channel_routes = cf.routes
          /\ accounts = cf.accounts
    /\ active_channels = EmptyMap
    /\ actives = [i \in Insts |-> FreeActive]
    /\ task = [i \in Insts |-> FreeTask]
    /\ req = [s \in Slots |-> IdleReq]
    /\ ctl = [k \in Ctls |-> IdleCtl]
    /\ arrivals = TwiceArrivals
    /\ requests = TwiceRequests
    /\ failures = TwiceFailures
    /\ acquired = [i \in Insts |-> 0]
    /\ released = [i \in Insts |-> 0]
    /\ \E o \in Operations : observed = [on |-> TRUE, op |-> Some(o), found |-> None]
    /\ upstream = NoFetch

\* Clients and upstream tasks run until the first request of the operation
\* arrives; from then on only the control handler runs, and the operation is
\* applied again when it has returned
TwiceNext ==
    \/ requests = TwiceRequests /\ \E s \in Slots : ClientStep(s)
    \/ requests = TwiceRequests /\ \E i \in Insts : TaskStep(i)
    \/ \E k \in Ctls :
          \/ Apply(k, observed.op[1])
          \/ RemoveActive(k)
          \/ SendStop(k)
          \/ ReleaseSlot(k)
          \/ InsertAccount(k)
          \/ SyncRemoveRoute(k)
          \/ SyncInsertRoute(k)
          \/ SyncSnapshotAccounts(k)
          \/ SyncRemoveAccount(k)
          \/ SyncUpdateAccount(k)

TwiceSpec == TwiceInit /\ [][TwiceNext]_vars

\* ---- upstream.rs: fetch_upstream ----
\* A body is the lengths of the pieces byte_stream yields and the way it ends;
\* a byte is named by its offset in the body, a run of bytes by the offset of
\* its first byte and its length.
PieceLens == {0, 1, CHUNK_SIZE - 1, CHUNK_SIZE, CHUNK_SIZE + 1, 2 * CHUNK_SIZE}
Endings == {"end", "error"}

Run(from, len) == [from |-> from, len |-> len]

\* upstream.rs:138-149: the call before its request is sent
Fetching(pieces, ending) ==
    [pc |-> "connect", byte_stream |-> pieces, ending |-> ending, received |-> 0,
     buffer |-> Run(0, 0), published |-> << >>, bytes_transferred |-> 0,
     result |-> ""]

\* a flush loop that leaves a buffer of exactly CHUNK_SIZE bytes unsent
FlushLate(u) ==
    IF u.buffer.len <= CHUNK_SIZE THEN u
    ELSE [u EXCEPT !.published = Append(@, Run(u.buffer.from, CHUNK_SIZE)),
                   !.buffer = Run(u.buffer.from + CHUNK_SIZE, u.buffer.len - CHUNK_SIZE),
                   !.bytes_transferred = @ + CHUNK_SIZE]

\* upstream.rs:164-171: while the buffer holds CHUNK_SIZE bytes, copy the
\* first CHUNK_SIZE, drain them, count them and send the chunk
RECURSIVE Flush(_)
Flush(u) ==
    IF u.buffer.len < CHUNK_SIZE THEN u
    ELSE Flush([u EXCEPT
                  !.published = Append(@, Run(u.buffer.from, CHUNK_SIZE)),
                  !.buffer = Run(u.buffer.from + CHUNK_SIZE, u.buffer.len - CHUNK_SIZE),
                  !.bytes_transferred = @ + CHUNK_SIZE])

\* the variables fetch_upstream does not touch
Outside ==
    << channel_routes, active_channels, accounts, actives, task, req, ctl,
       arrivals, requests, failures, acquired, released, observed >>

\* upstream.rs:140-149: the response arrives with a success status
Connect ==
    /\ upstream.pc = "connect"
    /\ upstream' = [upstream EXCEPT !.pc = "read"]
    /\ UNCHANGED Outside

\* upstream.rs:140-147: the request fails or the status is no success
ConnectFails ==
    /\ upstream.pc = "connect"
    /\ upstream' = [upstream EXCEPT !.pc = "returned", !.result = "connect error"]
    /\ UNCHANGED Outside

\* upstream.rs:156-158: the stop signal changes
StopChanged ==
    /\ upstream.pc = "read"
    /\ upstream' = [upstream EXCEPT !.pc = "returned", !.result = "ok"]
    /\ UNCHANGED Outside

\* upstream.rs:161-172: a piece arrives, is appended to the buffer, and the
\* buffer is flushed
ReceiveData ==
    /\ upstream.pc = "read"
    /\ upstream.byte_stream # << >>
    /\ LET data == Head(upstream.byte_stream)
       IN upstream' = Flush([upstream EXCEPT
                               !.byte_stream = Tail(@),
                               !.received = @ + data,
                               !.buffer = Run(@.from, @.len + data)])
    /\ UNCHANGED Outside

\* upstream.rs:173-175: the read fails
ReadFails ==
    /\ upstream.pc = "read"
    /\ upstream.byte_stream = << >>
    /\ upstream.ending = "error"
    /\ upstream' = [upstream EXCEPT !.pc = "returned", !.result = "read error"]
    /\ UNCHANGED Outside

\* upstream.rs:176-184: the body ends and what is left in the buffer is sent
StreamEnds ==
    /\ upstream.pc = "read"
    /\ upstream.byte_stream = << >>
    /\ upstream.ending = "end"
    /\ upstream' =
          IF upstream.buffer.len # 0
          THEN [upstream EXCEPT
                  !.pc = "returned", !.result = "stream ended",
                  !.published = Append(@, upstream.buffer),
                  !.bytes_transferred = @ + upstream.buffer.len,
                  !.buffer = Run(upstream.buffer.from + upstream.buffer.len, 0)]
          ELSE [upstream EXCEPT !.pc = "returned", !.result = "stream ended"]
    /\ UNCHANGED Outside

\* one call of fetch_upstream on every body of up to MaxPieces pieces
ChunkInit ==
    /\ channel_routes = EmptyMap
    /\ accounts = EmptyMap
    /\ active_channels = EmptyMap
    /\ actives = [i \in Insts |-> FreeActive]
    /\ task = [i \in Insts |-> FreeTask]
    /\ req = [s \in Slots |-> IdleReq]
    /\ ctl = [k \in Ctls |-> IdleCtl]
    /\ arrivals = 0
    /\ requests = 0
    /\ failures = 0
    /\ acquired = [i \in Insts |-> 0]
    /\ released = [i \in Insts |-> 0]
    /\ observed = Unobserved
    /\ \E pieces \in SeqsUpTo(PieceLens, MaxPieces), ending \in Endings :
          upstream = Fetching(pieces, ending)

ChunkNext ==
    \/ Connect
    \/ ConnectFails
    \/ StopChanged
    \/ ReceiveData
    \/ ReadFails
    \/ StreamEnds

ChunkSpec == ChunkInit /\ [][ChunkNext]_vars

\* ---- a channel deleted and routed again ----
ReplaceConfigurations ==
    {[routes |-> ("ch1" :> RoutingA), accounts |-> Configured.accounts]}

ReplaceInit ==
    InitWith(ReplaceConfigurations, ReplaceArrivals, ReplaceRequests, ReplaceFailures)

\* no client handler is between its lookup and the return of its body
NoneStarting == \A t \in Slots : req[t].pc \in {"idle", "streaming", "drop_check"}

\* Clients that arrive one after the other, upstream tasks, and the put and
\* delete of channel "ch1"
ReplaceNext ==
    \/ \E s \in Slots, c \in Channels : NoneStarting /\ ClientArrives(s, c)
    \/ \E s \in Slots :
          \/ RespondUnavailable(s)
          \/ SelectAndBuild(s)
          \/ StartIncrement(s)
          \/ StartInsert(s)
          \/ Attach(s)
          \/ Poll(s)
          \/ Disconnect(s)
          \/ DropCheck(s)
    \/ \E i \in Insts : TaskStep(i)
    \/ \E k \in Ctls :
          \/ \E config \in ChannelConfigs : put_channel(k, "ch1", config)
          \/ DeleteArrives(k, "ch1")
          \/ RemoveActive(k)
          \/ SendStop(k)
          \/ ReleaseSlot(k)

ReplaceSpec == ReplaceInit /\ [][ReplaceNext]_vars

\* ---- properties ----

\* the upstream task of object i has been spawned and has not returned
TaskAlive(i) == task[i].pc \notin {"none", "new", "exited"}

\* no client handler is between two of its steps and every task has exited
\* or sits in its fetch
Settled ==
    /\ \A s \in Slots : req[s].pc \in {"idle", "streaming"}
    /\ \A i \in Insts : task[i].pc \in {"none", "fetch", "exited"}

\* settled, no control request in flight and no stop signal pending
Quiescent ==
    /\ Settled
    /\ \A k \in Ctls : ctl[k].pc = "idle"
    /\ \A i \in Insts : task[i].pc = "fetch" => ~actives[i].stop

\* the Active Channels registered in active_channels whose upstream is
\* currently bound to account a
BoundTo(a) ==
    {i \in Insts : /\ \E c \in DOMAIN active_channels : active_channels[c] = i
                   /\ TaskAlive(i)
                   /\ task[i].account_id = a}

C2_ReleasedExactlyOnce ==
    \A i \in Insts :
       (task[i].pc \in {"remove", "exited"} /\ \A k \in Ctls : ctl[k].active # i)
          => released[i] = acquired[i]

\* C3: with client requests only (no control request so far), at most one
\* upstream task is alive for a channel id.
C3_OneTaskPerChannel ==
    (requests = MaxRequests) =>
       \A i, j \in Insts :
          (i # j /\ TaskAlive(i) /\ TaskAlive(j))
             => actives[i].channel_id # actives[j].channel_id

\* C4: a session attached to an Active Channel whose upstream task has
\* exited eventually ends.
C4_SessionEndsAfterTaskExit ==
    \A s \in Slots :
       (req[s].pc = "streaming" /\ task[req[s].active].pc = "exited")
          ~> (req[s].pc # "streaming")

\* the guard of session s finds the clients map empty and finishes
LastClientGone(s) ==
    /\ req[s].pc = "drop_check"
    /\ req'[s].pc = "idle"
    /\ actives[req[s].active].clients = {}

\* the task of object i performs its exit cleanup after a guard stopped it
StoppedTaskReleases(i) ==
    /\ actives[i].guard_stop
    /\ task[i].pc = "cleanup"
    /\ task'[i].pc = "remove"

Completes(k, op) == ctl[k].op = op /\ ctl'[k].pc = "idle"

\* C6: when a Delete channel on id completes, id is in neither
\* channel_routes nor active_channels, and the Active Channel it removed has
\* its stop signal true.
C6_DeleteLeavesNoTrace ==
    [][\A k \in Ctls :
         Completes(k, "delete") =>
            /\ ctl[k].channel_id \notin DOMAIN channel_routes'
            /\ ctl[k].channel_id \notin DOMAIN active_channels'
            /\ (ctl[k].active # 0 => actives[ctl[k].active].stop)]_vars

SyncActs(k) ==
    /\ ctl[k].op = "sync"
    /\ ctl'[k].pc # ctl[k].pc \/ ctl'[k].todo # ctl[k].todo

\* every live channel bound to account a is one the payload of k keeps
UsedOnlyByKept(k, a) ==
    \A i \in Insts :
       (TaskAlive(i) /\ task[i].account_id = a)
          => actives[i].channel_id \in DOMAIN ctl[k].payload.channels

\* C8: a step of Sync taken in a settled state leaves every channel of its
\* payload registered with the same Active Channel and the same stop signal,
\* and does not change the active_connections of an account whose live
\* channels are all kept.
C8_SyncKeepsLiveState ==
    [][\A k \in Ctls :
         (SyncActs(k) /\ Settled) =>
            /\ \A c \in DOMAIN ctl[k].payload.channels :
                  c \in DOMAIN active_channels =>
                     /\ c \in DOMAIN active_channels'
                     /\ active_channels'[c] = active_channels[c]
                     /\ actives'[active_channels[c]].stop
                           = actives[active_channels[c]].stop
            /\ \A a \in (DOMAIN accounts) \cap (DOMAIN accounts') :
                  UsedOnlyByKept(k, a) =>
                     accounts'[a].active_connections
                        = accounts[a].active_connections]_vars

\* no live channel other than object i is bound to account a
OnlyChannelOn(i, a) ==
    \A j \in Insts \ {i} : ~(TaskAlive(j) /\ task[j].account_id = a)

\* C9: when a Sync that ran in a settled state with no other step in
\* between completes, every id it dropped is in neither channel_routes nor active_channels, the stop
\* signal of the Active Channel it removed is true, and the account that
\* channel was bound to is at 0 when it was the only channel on it.
C9_SyncStopsDropped ==
    [][\A k \in Ctls :
         (Completes(k, "sync") /\ ctl[k].alone /\ Settled) =>
            \A r \in ctl[k].removed :
               /\ r.id \notin DOMAIN channel_routes'
               /\ r.id \notin DOMAIN active_channels'
               /\ r.inst # 0 =>
                     /\ actives'[r.inst].stop
                     /\ (r.account \in DOMAIN accounts' /\ OnlyChannelOn(r.inst, r.account))
                           => accounts'[r.account].active_connections = 0]_vars

\* C10: every entry of active_channels names an Active Channel whose
\* upstream task is alive.
C10_EntryOnlyWhileTaskAlive ==
    \A c \in DOMAIN active_channels : TaskAlive(active_channels[c])

\* a task has exited, its object is still held by a session, and the
\* channel id is out of active_channels
C10_Witness ==
    \E i \in Insts :
       /\ task[i].pc = "exited"
       /\ actives[i].clients # {}
       /\ actives[i].channel_id \notin DOMAIN active_channels

\* object i is the one a decrement is made for in this step, and account a
\* is the argument of that decrement
Decrements(i, a) ==
    \/ /\ task[i].pc \in {"release", "cleanup"}
       /\ task'[i].pc \in {"select_next", "remove"}
       /\ a = task[i].account_id
    \/ \E k \in Ctls :
          /\ ctl[k].pc = "rm_dec"
          /\ ctl'[k].pc # "rm_dec"
          /\ ctl[k].active = i
          /\ a = actives[i].account_id

\* C11: no counter is ever negative, and a decrement leaves a counter at 0
\* where it is, lowers a positive counter by one, touches no other account
\* and changes nothing when the account is unknown.
C11_DecrementNeverUnderflows ==
    /\ [](\A a \in DOMAIN accounts : accounts[a].active_connections >= 0)
    /\ [][\A i \in Insts, a \in AccountIds :
            Decrements(i, a) =>
               /\ DOMAIN accounts' = DOMAIN accounts
               /\ \A b \in DOMAIN accounts :
                     /\ accounts'[b].max_connections = accounts[b].max_connections
                     /\ accounts'[b].active_connections =
                           IF b # a THEN accounts[b].active_connections
                           ELSE IF accounts[b].active_connections = 0 THEN 0
                           ELSE accounts[b].active_connections - 1]_vars

\* a decrement has met a counter at 0: more decrements than increments were
\* made for a channel and its account stands at 0
C11_Witness ==
    \E i \in Insts :
       /\ released[i] > acquired[i]
       /\ task[i].account_id \in DOMAIN accounts
       /\ accounts[task[i].account_id].active_connections = 0

\* ---- selection ----
\* positions (stream index, url index) of a routing, and their order
Positions(streams) ==
    UNION {{<< si, ui >> : ui \in 1 .. Len(streams[si].urls)} : si \in 1 .. Len(streams)}

Before(p, q) == p[1] < q[1] \/ (p[1] = q[1] /\ p[2] < q[2])

PairAt(streams, p) ==
    [stream_id |-> streams[p[1]].id,
     account_id |-> streams[p[1]].urls[p[2]].account_id,
     url |-> streams[p[1]].urls[p[2]].url]

Open(accs, a) ==
    \/ a \notin DOMAIN accs
    \/ accs[a].max_connections = 0
    \/ accs[a].active_connections < accs[a].max_connections

OpenPositions(streams, accs) ==
    {p \in Positions(streams) : Open(accs, PairAt(streams, p).account_id)}

\* the pair at the least position of S, or nothing when S is empty
LeastOf(streams, S) ==
    IF S = {} THEN None
    ELSE Some(PairAt(streams, CHOOSE p \in S : \A q \in S : q = p \/ Before(p, q)))

FirstOpen(routes, accs, c) ==
    IF c \notin DOMAIN routes THEN None
    ELSE LeastOf(routes[c], OpenPositions(routes[c], accs))

Locals(t) == [stream_id |-> t.stream_id, account_id |-> t.account_id, url |-> t.url]

\* C12: for every routing and account table, select_stream returns the pair at
\* the first position, in (stream index, url index) order, whose account is
\* unknown, unlimited or below its limit, and nothing exactly when the channel
\* is unrouted or no position is open; a client request that selects starts
\* its channel on that pair and answers unavailable exactly when there is none.
C12_SelectFirstAdmissible ==
    /\ [](\A c \in Channels :
             select_stream(channel_routes, accounts, c) = FirstOpen(channel_routes, accounts, c))
    /\ [][\A s \in Slots :
            req[s].pc = "select" =>
               LET e == FirstOpen(channel_routes, accounts, req[s].channel_id)
               IN /\ req'[s].pc = "start_inc" =>
                        /\ e # None
                        /\ Locals(task'[req'[s].active]) = e[1]
                        /\ Locals(actives'[req'[s].active]) = e[1]
                  /\ req'[s].pc = "idle" => e = None]_vars

\* a channel was started on a pair that is not the first of its routing,
\* the pairs before it being closed
C12_Witness ==
    \E i \in Insts :
       /\ task[i].pc = "new"
       /\ actives[i].channel_id \in DOMAIN channel_routes
       /\ LET streams == channel_routes[actives[i].channel_id]
          IN \E p \in Positions(streams) :
                /\ \E q \in Positions(streams) : Before(q, p)
                /\ PairAt(streams, p) = Locals(task[i])
                /\ \A q \in Positions(streams) :
                      Before(q, p) => ~Open(accounts, PairAt(streams, q).account_id)

\* positions of a routing that carry the failed stream and account
Matching(streams, fsid, faid) ==
    {p \in Positions(streams) :
        PairAt(streams, p).stream_id = fsid /\ PairAt(streams, p).account_id = faid}

\* the first open pair strictly after the first position carrying the failed
\* stream and account; nothing when no position carries them
NextOpen(routes, accs, c, fsid, faid) ==
    IF c \notin DOMAIN routes THEN None
    ELSE LET streams == routes[c]
             M == Matching(streams, fsid, faid)
         IN IF M = {} THEN None
            ELSE LET f == CHOOSE p \in M : \A q \in M : q = p \/ Before(p, q)
                 IN LeastOf(streams, {p \in OpenPositions(streams, accs) : Before(f, p)})

\* C13: the failover selection of a task returns the first open pair strictly
\* after the pair carrying the failed stream and account, a later url of the
\* same stream on the same account included, and nothing when the routing no
\* longer carries the failed pair; the task goes on with that pair, or ends
\* when there is none.
C13_SelectNextAfterFailed ==
    [][\A i \in Insts :
          (task[i].pc = "select_next" /\ task'[i].pc # "select_next") =>
             LET e == NextOpen(channel_routes, accounts, actives[i].channel_id,
                               task[i].stream_id, task[i].account_id)
             IN /\ select_next_stream(channel_routes, accounts, actives[i].channel_id,
                                      task[i].stream_id, task[i].account_id) = e
                /\ task'[i].pc = "acquire" => (e # None /\ Locals(task'[i]) = e[1])
                /\ task'[i].pc = "cleanup" => e = None]_vars

\* ---- failover ----
\* C14: while a task is connected to an upstream, the stream_id, account_id and
\* url of its Active Channel, which the status handlers report and which delete
\* and sync release the slot of, are the pair the task is connected to, also
\* after a failover to another pair.
C14_ChannelShowsCurrentPair ==
    \A i \in Insts :
       (actives[i].used /\ task[i].pc = "fetch") => Locals(actives[i]) = Locals(task[i])

\* the steps of a failover of task i: the release of the failed account, the
\* selection of the next pair, the acquisition of its account
Releases(i) == task[i].pc = "release" /\ task'[i].pc = "select_next"
Selects(i) == task[i].pc = "select_next" /\ task'[i].pc = "acquire"
Acquires(i) == task[i].pc = "acquire" /\ task'[i].pc = "fetch"

Looping(i) == task[i].pc \in {"fetch", "release", "select_next", "acquire"}

\* the fetch of task i is pending and no failure is left for it to return with
Pending(i) == task[i].pc = "fetch" /\ ~actives[i].stop /\ failures = 0

\* C16: a task makes at most MAX_FAILOVERS fetch attempts: its failure count
\* only grows, a task that is fetching or failing over has seen fewer than
\* MAX_FAILOVERS failures, the failure that brings the count to MAX_FAILOVERS
\* sends the task to its cleanup with the pair it had, the cleanup leaves no
\* entry for the channel in active_channels, and a task whose fetches return
\* ends.
C16_FailoverCapEndsTask ==
    /\ [](\A i \in Insts :
             /\ task[i].failover_count <= MAX_FAILOVERS
             /\ Looping(i) => task[i].failover_count < MAX_FAILOVERS)
    /\ [][\A i \in Insts :
            /\ (TaskAlive(i) /\ TaskAlive(i)') =>
                  task'[i].failover_count >= task[i].failover_count
            /\ (task[i].failover_count < MAX_FAILOVERS
                   /\ task'[i].failover_count = MAX_FAILOVERS) =>
                  (task[i].pc = "fetch" /\ task'[i].pc = "cleanup")
            /\ (task[i].failover_count = MAX_FAILOVERS /\ task'[i].pc # "none") =>
                  /\ Locals(task'[i]) = Locals(task[i])
                  /\ task'[i].pc \in {"cleanup", "remove", "exited"}
            /\ (task[i].pc = "remove" /\ task'[i].pc # "remove") =>
                  actives[i].channel_id \notin DOMAIN active_channels']_vars
    /\ \A i \in Insts : TaskAlive(i) ~> (~TaskAlive(i) \/ Pending(i))

\* a task has ended on its MAX_FAILOVERS-th failure, its channel unregistered
C16_Witness ==
    \E i \in Insts :
       /\ task[i].pc = "exited"
       /\ task[i].failover_count = MAX_FAILOVERS
       /\ ~actives[i].stop
       /\ actives[i].channel_id \notin DOMAIN active_channels

\* ---- client sessions ----
\* the sessions attached to object i whose body has not been dropped
LiveBodies(i) == {s \in Slots : req[s].pc = "streaming" /\ req[s].active = i}

\* C17: the clients map of every Active Channel holds exactly the sessions
\* whose body is still alive: a session that has ended, whichever way its body
\* was dropped, is no longer in the map.
C17_ClientsAreLiveBodies ==
    \A i \in Insts : actives[i].clients = LiveBodies(i)

\* one session of a channel has ended and left the map while another session
\* of the same channel goes on
C17_Witness ==
    \E s, t \in Slots :
       /\ req[s].pc = "drop_check"
       /\ req[t].pc = "streaming"
       /\ req[t].active = req[s].active
       /\ actives[req[s].active].clients = {t}

\* ---- put_account ----
\* a put_account request arrives at handler k and finds its account, or
\* handler k, having found its account absent, inserts it
PutAccountActs(k) ==
    \/ /\ ctl[k].pc = "idle"
       /\ requests' = requests - 1
       /\ ctl'[k].pc = "idle"
    \/ /\ ctl[k].pc = "acc_ins"
       /\ ctl[k].op = "put_account"
       /\ ctl'[k].pc # "acc_ins"

\* C18: a put_account step changes the limit of its account only: it leaves
\* the count of every registered account as it was, whatever channel starts,
\* teardowns and other put_account requests run beside it, and an account it
\* registers starts at count 0.
C18_PutAccountKeepsCounts ==
    [][\A k \in DOMAIN ctl :
          PutAccountActs(k) =>
             \A a \in DOMAIN accounts' :
                accounts'[a].active_connections =
                   IF a \in DOMAIN accounts THEN accounts[a].active_connections ELSE 0]_vars

\* ---- put_channel ----
\* C19: a put_channel step replaces the routing of its channel id and nothing
\* else: the other routings, active_channels, every Active Channel with its
\* stop signal and clients, the pair every task is connected to, the client
\* sessions and every account stay as they were; the routing is read again
\* only by a later selection.
C19_PutChannelOnlyRoutes ==
    [][\A k \in Ctls, c \in Channels, config \in ChannelConfigs :
          put_channel(k, c, config) =>
             /\ c \in DOMAIN channel_routes' /\ channel_routes'[c] = config
             /\ \A d \in Channels \ {c} :
                   /\ d \in DOMAIN channel_routes' <=> d \in DOMAIN channel_routes
                   /\ d \in DOMAIN channel_routes => channel_routes'[d] = channel_routes[d]
             /\ active_channels' = active_channels
             /\ actives' = actives
             /\ task' = task
             /\ req' = req
             /\ accounts' = accounts]_vars

\* a task is connected, with a client attached, to a pair that the routing of
\* its channel, replaced since, no longer carries
C19_Witness ==
    \E i \in Insts :
       /\ task[i].pc = "fetch"
       /\ actives[i].clients # {}
       /\ ~actives[i].stop
       /\ actives[i].channel_id \in DOMAIN active_channels
       /\ active_channels[actives[i].channel_id] = i
       /\ actives[i].channel_id \in DOMAIN channel_routes
       /\ Matching(channel_routes[actives[i].channel_id],
                   task[i].stream_id, task[i].account_id) = {}

\* ---- unavailable ----
\* nothing but the request of slot s has changed in this step
OnlyRequest(s) ==
    /\ channel_routes' = channel_routes
    /\ active_channels' = active_channels
    /\ accounts' = accounts
    /\ actives' = actives
    /\ task' = task
    /\ \A t \in Slots \ {s} : req'[t] = req[t]

\* C20: a client request that finds its channel not active and for which
\* select_stream returns nothing ends unavailable and changes nothing: no
\* Active Channel is built or registered, no task is started, no client is
\* added, no account is counted; a request for which a pair is selected
\* goes on to start the channel.
C20_UnavailableChangesNothing ==
    [][\A s \in Slots :
          /\ (req[s].pc = "idle" /\ req'[s].pc = "select") =>
                /\ req'[s].channel_id \notin DOMAIN active_channels
                /\ OnlyRequest(s)
          /\ (req[s].pc = "select" /\ req'[s] # req[s]) =>
                IF select_stream(channel_routes, accounts, req[s].channel_id) = None
                THEN req'[s] = IdleReq /\ OnlyRequest(s)
                ELSE req'[s].pc = "start_inc"]_vars

\* a request has been answered unavailable before any routing was put: no
\* channel is routed or registered, no task was started, no account counted
C20_Witness ==
    /\ arrivals < MaxArrivals
    /\ requests = MaxRequests
    /\ channel_routes = EmptyMap
    /\ active_channels = EmptyMap
    /\ \A s \in Slots : req[s] = IdleReq
    /\ \A i \in Insts : actives[i] = FreeActive /\ task[i] = FreeTask
    /\ \A a \in DOMAIN accounts : accounts[a].active_connections = 0

\* ---- idempotence ----
\* the operation has been applied at least twice, the latest application has
\* returned, and no step was taken between the applications
AppliedAgain ==
    /\ observed.on
    /\ observed.found # None
    /\ requests + 2 <= TwiceRequests
    /\ \A k \in Ctls : ctl[k].pc = "idle"

\* C21: a control operation applied twice in succession leaves the routes,
\* the registered channels, the stop signals and the limit and count of every
\* account as its first application left them.
C21_ControlIdempotent ==
    AppliedAgain => Observation = observed.found[1]

\* ---- chunking ----
RECURSIVE TotalLen(_)
TotalLen(chunks) ==
    IF chunks = << >> THEN 0 ELSE Head(chunks).len + TotalLen(Tail(chunks))

\* the chunks, one after the other, are the first bytes of the body
IsPrefix(chunks) ==
    \A n \in 1 .. Len(chunks) : chunks[n].from = TotalLen(SubSeq(chunks, 1, n - 1))

\* the chunks published while the body had not ended
BeforeEnd(u) ==
    IF u.result = "stream ended" /\ u.received % CHUNK_SIZE # 0
    THEN SubSeq(u.published, 1, Len(u.published) - 1)
    ELSE u.published

\* C22: for every body, each chunk published before the end of the body has
\* exactly CHUNK_SIZE bytes, the published chunks one after the other are a
\* prefix of the bytes received, every full chunk is published as soon as it
\* is received, the end of the body publishes the non-empty remainder as one
\* last chunk, a read error publishes nothing more, and bytes_transferred is
\* the sum of the lengths of the published chunks.
C22_ChunksArePrefix ==
    upstream.pc \in {"read", "returned"} =>
       /\ \A n \in 1 .. Len(BeforeEnd(upstream)) :
             BeforeEnd(upstream)[n].len = CHUNK_SIZE
       /\ Len(BeforeEnd(upstream)) = upstream.received \div CHUNK_SIZE
       /\ IsPrefix(upstream.published)
       /\ TotalLen(upstream.published) <= upstream.received
       /\ \A n \in 1 .. Len(upstream.published) : upstream.published[n].len > 0
       /\ upstream.result = "stream ended" =>
             TotalLen(upstream.published) = upstream.received
       /\ upstream.result # "stream ended" =>
             TotalLen(upstream.published) =
                CHUNK_SIZE * (upstream.received \div CHUNK_SIZE)
       /\ upstream.bytes_transferred = TotalLen(upstream.published)

\* a body of more than CHUNK_SIZE bytes has ended: full chunks were published
\* and then the remainder as a shorter last chunk
C22_Witness ==
    /\ upstream.pc = "returned"
    /\ upstream.result = "stream ended"
    /\ Len(upstream.published) >= 2
    /\ upstream.published[Len(upstream.published)].len < CHUNK_SIZE
    /\ upstream.published[1].len = CHUNK_SIZE

\* ---- quota ----
\* the Active Channels, registered and not told to stop, whose task is
\* fetching from a url of account a
FetchingOn(a) ==
    {i \in Insts :
        /\ task[i].pc = "fetch"
        /\ task[i].account_id = a
        /\ ~actives[i].stop
        /\ actives[i].channel_id \in DOMAIN active_channels
        /\ active_channels[actives[i].channel_id] = i}

\* C23: for a registered account with a limit m > 0, no more than m Active
\* Channels are live on the account at once, also when the clients of
\* different channels routed to the account arrive together.
C23_QuotaHolds ==
    \A a \in DOMAIN accounts :
       accounts[a].max_connections > 0 =>
          Cardinality(FetchingOn(a)) <= accounts[a].max_connections

\* ---- attach and last-client stop ----
\* C24: an Active Channel whose stop signal was sent by the guard of its last
\* client has no client: no client that found the channel in active_channels
\* while the last client was disconnecting stays subscribed to a channel
\* that was told to stop.
C24_StoppedByGuardHasNoClient ==
    \A i \in Insts :
       (actives[i].used /\ actives[i].stop /\ actives[i].guard_stop) =>
          actives[i].clients = {}

\* ---- exit cleanup ----
\* object i is the one active_channels holds under its channel id
Registered(i) ==
    /\ actives[i].channel_id \in DOMAIN active_channels
    /\ active_channels[actives[i].channel_id] = i

\* the task of object i, told to stop by the removal of its channel, removes
\* the map entry of its channel id and returns, the removal having returned
\* and the channel being routed again
ExitsRemoved(i) ==
    /\ task[i].pc = "remove"
    /\ task'[i].pc = "exited"
    /\ actives[i].stop
    /\ ~actives[i].guard_stop
    /\ \A k \in Ctls : ctl[k].pc = "idle"
    /\ actives[i].channel_id \in DOMAIN channel_routes

\* C25: the exit cleanup of a task removes only the entry of its own Active
\* Channel: a task that is alive, not told to stop and registered stays
\* registered when the task of an instance removed before it exits, as after
\* a delete of the channel, a new put and a client that starts a new instance.
C25_ExitRemovesOwnEntry ==
    [][\A i, j \in Insts :
          (/\ ExitsRemoved(i)
           /\ j # i
           /\ TaskAlive(j)
           /\ ~actives[j].stop
           /\ Registered(j)) => Registered(j)']_vars

====
